---- MODULE Spec2Model ----
(***************************************************************************)
(* Model of @momsfriendlydevco/dotenv: the ConfigDestruct value cell       *)
(* (lib/configDestruct.js), the Schema engine and the DotEnv facade.       *)
(*                                                                         *)
(* Time is in milliseconds.  JavaScript values are records [t, s, n]:      *)
(* t is the kind of value, s its text and n its number.                    *)
(***************************************************************************)
EXTENDS Integers, Sequences, FiniteSets, Bags, TLC

(***************************************************************************)
(* Bounds of the model                                                     *)
(***************************************************************************)
MaxTime == 1000      \* the clock stops here
MaxTimers == 2       \* cap on the pending timers of one cell
MaxOps == 3          \* cap on the calls that change a DotEnv instance

(***************************************************************************)
(* Program constants                                                       *)
(***************************************************************************)
TickDefault == 500   \* #tickInterval = 500, settings.tick
AtDefault == 60000   \* settings.at = '1m'

\* largest jump of the clock in one step
Step == TickDefault \div 2

VARIABLES now, cell, args, ret, env

vars == <<now, cell, args, ret, env>>

(***************************************************************************)
(* JavaScript values                                                       *)
(***************************************************************************)
\* a string is the sequence of its characters
Val(t, s, n, r) == [t |-> t, s |-> s, n |-> n, r |-> r]
Undef == Val("undefined", <<>>, 0, "")
Null == Val("null", <<>>, 0, "")
Str(x) == Val("string", x, 0, "")
Num(k) == Val("number", <<>>, k, "")
NaN == Val("nan", <<>>, 0, "")
Bool(b) == Val("boolean", <<>>, IF b THEN 1 ELSE 0, "")
FnRet(v) == Val("function", v.s, v.n, v.t)     \* ()=> v
FnThrow == Val("function", <<>>, 0, "throw")   \* ()=> { throw new Error(...) }
Omitted == Val("omitted", <<>>, 0, "")         \* a key an options object leaves out
CellObj == Val("cell", <<>>, 0, "")            \* a ConfigDestruct instance seen as a value

\* typeof v
TypeOf(v) ==
    IF v.t \in {"null", "cell", "array", "object"} THEN "object"
    ELSE IF v.t = "nan" THEN "number"
    ELSE v.t

\* !!v
Truthy(v) ==
    CASE v.t \in {"undefined", "null", "nan"} -> FALSE
      [] v.t = "string" -> v.s # <<>>
      [] v.t \in {"number", "boolean"} -> v.n # 0
      [] OTHER -> TRUE

\* v(): the outcome of calling a function value
Invoke(v) ==
    IF v.r = "throw" THEN [threw |-> TRUE, val |-> Undef]
                     ELSE [threw |-> FALSE, val |-> Val(v.r, v.s, v.n, "")]

\* typeof v == 'function' ? v() : v
Call(v) ==
    IF TypeOf(v) = "function" THEN Invoke(v) ELSE [threw |-> FALSE, val |-> v]

Secret == <<"s", "1">>
Secret2 == <<"s", "2">>
SecretVals == {Str(Secret), FnRet(Str(Secret))}
NewVals == {Str(Secret2)}
ReplVals == {Omitted, Str(<<"N", "O">>)}
NewReplVals == {Str(<<"G", "O">>)}

\* the result of a read shows a protected value
IsSecret(v) == v.s \in {Secret, Secret2}

(***************************************************************************)
(* ConfigDestruct                                                          *)
(*   handleSet : #tickHandle is truthy                                     *)
(*   handleAt  : fire time of the timer #tickHandle refers to while that   *)
(*               timer is pending, -1 otherwise                            *)
(*   leaked    : fire times of the pending timers no handle refers to      *)
(***************************************************************************)
NoTimer == 0 - 1

\* a destruct() that exchanges #value and #destructValue
destructSwap(c) ==
    [c EXCEPT !.handleAt = NoTimer,
              !.value = c.destructValue,
              !.destructValue = c.value,
              !.destructed = TRUE]

\* destruct()
destruct(c) ==
    [c EXCEPT !.handleAt = NoTimer,
              !.value = c.destructValue,
              !.destructed = TRUE]

\* toConfig() destructing only after the deadline and not at it
toConfigLate(c, t) ==
    LET c1 == IF ~c.destructed /\ t > c.destructDate THEN [c EXCEPT !.handleAt = 0 - 1, !.value = c.destructValue, !.destructed = TRUE] ELSE c
    IN  [cell |-> c1, out |-> Call(c1.value)]

\* toConfig()
toConfig(c, t) ==
    LET c1 == IF ~c.destructed /\ t >= c.destructDate THEN destruct(c) ELSE c
    IN  [cell |-> c1, out |-> Call(c1.value)]

\* setValue(value)
setValue(c, v) ==
    IF c.destructed
    THEN [cell |-> c, threw |-> TRUE]
    ELSE [cell |-> [c EXCEPT !.value = v], threw |-> FALSE]

\* setDestruct(time): time is [kind, ms], kind "duration" (a timestring),
\* "date" (a Date) or anything else
setDestruct(c, time, t) ==
    IF c.destructed THEN [cell |-> c, threw |-> TRUE]
    ELSE IF time.kind = "duration"
         THEN [cell |-> [c EXCEPT !.destructDate = t + time.ms], threw |-> FALSE]
    ELSE IF time.kind = "date"
         THEN [cell |-> [c EXCEPT !.destructDate = time.ms], threw |-> FALSE]
    ELSE [cell |-> c, threw |-> TRUE]

\* setDestructValue(value)
setDestructValue(c, v) == [c EXCEPT !.destructValue = v]

\* timerTick() that does not schedule the next tick
timerTickOnce(c, t) ==
    LET c1 == [c EXCEPT !.handleAt = NoTimer]
    IN  IF t >= c1.destructDate THEN destruct(c1) ELSE c1

\* timerTick()
timerTick(c, t) ==
    LET c1 == [c EXCEPT !.handleAt = NoTimer]
        c2 == IF t >= c1.destructDate THEN destruct(c1) ELSE c1
    IN  IF ~c2.destructed
        THEN [c2 EXCEPT !.leaked = @ (+) SetToBag({t + c2.tickInterval})]
        ELSE c2

\* timerRestart() without the check of #destructed
timerRestartUnguarded(c, duration, t) ==
    LET c1 == IF duration # 0 THEN [c EXCEPT !.tickInterval = duration] ELSE c
    IN  [cell |-> IF c1.tickInterval > 0
                  THEN [c1 EXCEPT !.handleSet = TRUE,
                                  !.handleAt = t + c1.tickInterval]
                  ELSE c1,
         threw |-> FALSE]

\* timerRestart(duration): duration is a millisecond number, 0 when falsy
timerRestart(c, duration, t) ==
    IF c.destructed THEN [cell |-> c, threw |-> TRUE]
    ELSE LET c1 == IF duration # 0 THEN [c EXCEPT !.tickInterval = duration] ELSE c
         IN  [cell |-> IF c1.tickInterval > 0
                       THEN [c1 EXCEPT !.handleSet = TRUE,
                                       !.handleAt = t + c1.tickInterval]
                       ELSE c1,
              threw |-> FALSE]

\* field initialisers of the class
FreshCell ==
    [value |-> Undef, destructed |-> FALSE, destructDate |-> 0,
     destructValue |-> Undef, tickInterval |-> TickDefault,
     handleSet |-> FALSE, handleAt |-> NoTimer, leaked |-> EmptyBag]

\* constructor(value, config): config is [at, destructValue, tick] where
\* at.kind = "omitted", destructValue = Omitted and tick = -1 stand for a key
\* the config leaves out
ConfigDestruct(value, config, t) ==
    LET at == IF config.at.kind = "omitted"
              THEN [kind |-> "duration", ms |-> AtDefault] ELSE config.at
        tick == IF config.tick = 0 - 1 THEN TickDefault ELSE config.tick
        c1 == setValue(FreshCell, value).cell
        c2 == setDestruct(c1, at, t).cell
        c3 == setDestructValue(c2, IF config.destructValue = Omitted
                                   THEN FnThrow ELSE config.destructValue)
    IN  timerRestart(c3, tick, t).cell

PendingCount(c) == BagCardinality(c.leaked) + (IF c.handleAt >= 0 THEN 1 ELSE 0)
PendingTimes(c) == BagToSet(c.leaked) \cup (IF c.handleAt >= 0 THEN {c.handleAt} ELSE {})
TimerDue(c, t) == \E x \in PendingTimes(c) : x <= t

(***************************************************************************)
(* One cell over time                                                      *)
(***************************************************************************)
AtChoices ==
    {[kind |-> "duration", ms |-> 250], [kind |-> "date", ms |-> 500],
     [kind |-> "omitted", ms |-> 0]}
TickChoices == {0 - 1, 0, 250}
SetDestructChoices ==
    {[kind |-> "duration", ms |-> 250], [kind |-> "number", ms |-> 500]}
RestartChoices == {0, 250}
Configs == [at : AtChoices, destructValue : ReplVals, tick : TickChoices]

Ret(op, threw, val) == [op |-> op, threw |-> threw, val |-> val]

CellInit ==
    /\ now = 0
    /\ args \in [value : SecretVals, config : Configs]
    /\ cell = ConfigDestruct(args.value, args.config, 0)
    /\ ret = Ret("new", FALSE, Undef)
    /\ env = <<>>

\* a read of the cell
ToConfig ==
    LET r == toConfig(cell, now)
    IN  /\ cell' = r.cell
        /\ ret' = Ret("toConfig", r.out.threw, r.out.val)
        /\ UNCHANGED <<now, args, env>>

\* a manual destruct()
Destruct ==
    /\ cell' = destruct(cell)
    /\ ret' = Ret("destruct", FALSE, Undef)
    /\ UNCHANGED <<now, args, env>>

SetValue ==
    \E v \in NewVals :
        LET r == setValue(cell, v)
        IN  /\ cell' = r.cell
            /\ ret' = Ret("setValue", r.threw, Undef)
            /\ UNCHANGED <<now, args, env>>

SetDestruct ==
    \E time \in SetDestructChoices :
        LET r == setDestruct(cell, time, now)
        IN  /\ cell' = r.cell
            /\ ret' = Ret("setDestruct", r.threw, Undef)
            /\ UNCHANGED <<now, args, env>>

SetDestructValue ==
    \E v \in NewReplVals :
        /\ cell' = setDestructValue(cell, v)
        /\ ret' = Ret("setDestructValue", FALSE, Undef)
        /\ UNCHANGED <<now, args, env>>

\* a manual timerTick()
TimerTick ==
    /\ cell.handleAt >= 0 \/ PendingCount(cell) < MaxTimers
    /\ cell' = timerTick(cell, now)
    /\ ret' = Ret("timerTick", FALSE, Undef)
    /\ UNCHANGED <<now, args, env>>

TimerRestart ==
    \E d \in RestartChoices :
        LET r == timerRestart(cell, d, now)
        IN  /\ cell.destructed \/ cell.handleAt >= 0 \/ PendingCount(cell) < MaxTimers
            /\ cell' = r.cell
            /\ ret' = Ret("timerRestart", r.threw, Undef)
            /\ UNCHANGED <<now, args, env>>

\* the timer #tickHandle refers to fires
TimerFire ==
    /\ cell.handleAt >= 0
    /\ cell.handleAt <= now
    /\ cell' = timerTick([cell EXCEPT !.handleAt = NoTimer], now)
    /\ UNCHANGED <<now, args, ret, env>>

\* a timer no handle refers to fires
TimerFireLeaked ==
    \E x \in BagToSet(cell.leaked) :
        /\ x <= now
        /\ cell' = timerTick([cell EXCEPT !.leaked = @ (-) SetToBag({x})], now)
        /\ UNCHANGED <<now, args, ret, env>>

Min(S) == CHOOSE x \in S : \A y \in S : x <= y

\* the clock advances to the next timer, by Step at most; a due timer runs first
AdvanceTime ==
    /\ now < MaxTime
    /\ ~TimerDue(cell, now)
    /\ now' = Min({now + Step} \cup PendingTimes(cell))
    /\ UNCHANGED <<cell, args, ret, env>>

CellNext ==
    \/ ToConfig
    \/ Destruct
    \/ SetValue
    \/ SetDestruct
    \/ SetDestructValue
    \/ TimerTick
    \/ TimerRestart
    \/ TimerFire
    \/ TimerFireLeaked
    \/ AdvanceTime

SpecCell == CellInit /\ [][CellNext]_vars

\* reads and the background timer only
ReadNext ==
    \/ ToConfig
    \/ TimerFire
    \/ TimerFireLeaked
    \/ AdvanceTime

SpecRead == CellInit /\ [][ReadNext]_vars

\* reads, the background timer and manual destruct() calls
SpecDestruct ==
    CellInit /\ [][ToConfig \/ Destruct \/ TimerFire \/ TimerFireLeaked \/ AdvanceTime]_vars

\* the background timer only: no reads, no manual calls
TimerNext ==
    \/ TimerFire
    \/ TimerFireLeaked
    \/ AdvanceTime

SpecTimer == CellInit /\ [][TimerNext]_vars

(***************************************************************************)
(* Strings                                                                 *)
(***************************************************************************)
DigitChars == {"0", "1", "2", "3", "4", "5", "6", "7", "8", "9"}
DigitVal(ch) ==
    CASE ch = "0" -> 0 [] ch = "1" -> 1 [] ch = "2" -> 2 [] ch = "3" -> 3
      [] ch = "4" -> 4 [] ch = "5" -> 5 [] ch = "6" -> 6 [] ch = "7" -> 7
      [] ch = "8" -> 8 [] ch = "9" -> 9

\* String.prototype.toLowerCase(), over the letters the type names use
LowerChar(ch) ==
    CASE ch = "A" -> "a" [] ch = "B" -> "b" [] ch = "C" -> "c" [] ch = "E" -> "e"
      [] ch = "G" -> "g" [] ch = "I" -> "i" [] ch = "L" -> "l" [] ch = "M" -> "m"
      [] ch = "N" -> "n" [] ch = "O" -> "o" [] ch = "P" -> "p" [] ch = "R" -> "r"
      [] ch = "S" -> "s" [] ch = "T" -> "t" [] ch = "U" -> "u" [] ch = "Y" -> "y"
      [] OTHER -> ch
\* a type name used in the case it was written in
KeepCase(str) == str
ToLowerCase(str) == [i \in 1..Len(str) |-> LowerChar(str[i])]

\* the digits of str from position i on, read as a decimal number
RECURSIVE ReadDigits(_, _, _)
ReadDigits(str, i, acc) ==
    IF i <= Len(str) /\ str[i] \in DigitChars
    THEN ReadDigits(str, i + 1, acc * 10 + DigitVal(str[i]))
    ELSE acc

RECURSIVE SkipSpaces(_, _)
SkipSpaces(str, i) ==
    IF i <= Len(str) /\ str[i] = " " THEN SkipSpaces(str, i + 1) ELSE i

\* parseInt(str): leading blanks, an optional sign, then the leading digits
ParseInt(str) ==
    LET i == SkipSpaces(str, 1)
        signed == i <= Len(str) /\ str[i] \in {"+", "-"}
        j == IF signed THEN i + 1 ELSE i
    IN  IF j <= Len(str) /\ str[j] \in DigitChars
        THEN Num(IF signed /\ str[i] = "-" THEN 0 - ReadDigits(str, j, 0)
                                          ELSE ReadDigits(str, j, 0))
        ELSE NaN

(***************************************************************************)
(* Schema.types: the type registry                                         *)
(*   a cast / validate entry is [kind, name, beh]:                         *)
(*     kind "none"   no such key                                           *)
(*     kind "fn"     the function the registry type `name` defines         *)
(*     kind "ptr"    a string pointer to the registry type `name`          *)
(*     kind "custom" a function of the field itself, behaving as `beh`     *)
(***************************************************************************)
T_any == <<"a", "n", "y">>
T_string == <<"s", "t", "r", "i", "n", "g">>
T_number == <<"n", "u", "m", "b", "e", "r">>
T_boolean == <<"b", "o", "o", "l", "e", "a", "n">>
T_percent == <<"p", "e", "r", "c", "e", "n", "t">>
T_emails == <<"e", "m", "a", "i", "l", "s">>
T_mongouri == <<"m", "o", "n", "g", "o", "u", "r", "i">>
T_uri == <<"u", "r", "i">>
TypeNames == {T_any, T_string, T_number, T_boolean, T_percent, T_emails, T_mongouri, T_uri}
\* `types` is an object literal: it inherits Object.prototype.constructor
T_constructor == <<"c", "o", "n", "s", "t", "r", "u", "c", "t", "o", "r">>
\* !!this.types[name]
Registered(name) == name \in TypeNames \/ name = T_constructor

NoFn == [kind |-> "none", name |-> <<>>, beh |-> ""]
TypeFn(name) == [kind |-> "fn", name |-> name, beh |-> ""]
PtrFn(name) == [kind |-> "ptr", name |-> name, beh |-> ""]
CustomFn(beh) == [kind |-> "custom", name |-> <<>>, beh |-> beh]

\* this.types[name]: the cast, validate and uncast keys of a registry type
Types(name) ==
    CASE name = T_any -> [cast |-> NoFn, validate |-> NoFn, uncast |-> NoFn]
      [] name = T_string ->
            [cast |-> TypeFn(T_string), validate |-> TypeFn(T_string), uncast |-> NoFn]
      [] name = T_number ->
            [cast |-> TypeFn(T_number), validate |-> TypeFn(T_number), uncast |-> NoFn]
      [] name = T_boolean ->
            [cast |-> TypeFn(T_boolean), validate |-> NoFn, uncast |-> TypeFn(T_boolean)]
      [] name = T_percent ->
            [cast |-> TypeFn(T_percent), validate |-> PtrFn(T_number), uncast |-> NoFn]
      [] name = T_emails ->
            [cast |-> PtrFn(T_string), validate |-> TypeFn(T_emails),
             uncast |-> TypeFn(T_emails)]
      [] name = T_mongouri ->
            [cast |-> PtrFn(T_uri), validate |-> TypeFn(T_mongouri), uncast |-> PtrFn(T_uri)]
      [] name = T_uri ->
            [cast |-> TypeFn(T_uri), validate |-> TypeFn(T_uri), uncast |-> TypeFn(T_uri)]
      [] name = T_constructor -> [cast |-> NoFn, validate |-> NoFn, uncast |-> NoFn]

BooleanTrue == {<<"t", "r", "u", "e">>, <<"y", "e", "s">>, <<"1">>, <<"o", "n">>}
BooleanFalse == {<<"f", "a", "l", "s", "e">>, <<"n", "o">>, <<"0">>, <<"o", "f", "f">>}

\* v.replace(/\s*%/, ''): drops the first '%' and the blanks right before it
RECURSIVE FirstPercent(_, _)
FirstPercent(str, i) ==
    IF i > Len(str) THEN 0
    ELSE IF str[i] = "%" THEN i ELSE FirstPercent(str, i + 1)
RECURSIVE BlanksBefore(_, _)
BlanksBefore(str, i) ==
    IF i > 1 /\ str[i - 1] = " " THEN BlanksBefore(str, i - 1) ELSE i
StripPercent(str) ==
    LET p == FirstPercent(str, 1)
    IN  IF p = 0 THEN str
        ELSE SubSeq(str, 1, BlanksBefore(str, p) - 1) \o SubSeq(str, p + 1, Len(str))

Ok(v) == [threw |-> FALSE, val |-> v]
Thrown == [threw |-> TRUE, val |-> Undef]

\* the cast function of registry type `name`, called as (v, field) on a string
CastFn(name, v, field) ==
    CASE name = T_string -> Ok(Str(v.s))
      [] name = T_number -> Ok(ParseInt(v.s))
      [] name = T_percent -> Ok(ParseInt(StripPercent(v.s)))
      [] name = T_boolean ->
            IF v.s \in BooleanTrue THEN Ok(Bool(TRUE))
            ELSE IF v.s \in BooleanFalse THEN Ok(Bool(FALSE))
            ELSE Thrown
      \* field.parse ? new URL(v) : v, and no field of the model sets `parse`
      [] name = T_uri -> Ok(v)

\* isNaN(v)
IsNaN(v) == v.t \in {"nan", "undefined", "function", "cell", "object"}

\* field.min !== undefined && v < field.min
Below(n, bound) == bound.t # "undefined" /\ n < bound.n
Above(n, bound) == bound.t # "undefined" /\ n > bound.n

\* the validate function of registry type `name`, called as (v, field)
ValidateFn(name, v, field) ==
    CASE name = T_string ->
            IF TypeOf(v) # "string" THEN Thrown
            ELSE IF Below(Len(v.s), field.min) THEN Thrown
            ELSE IF Above(Len(v.s), field.max) THEN Thrown
            ELSE Ok(Undef)
      [] name = T_number ->
            IF ~Truthy(v) /\ ~field.required THEN Ok(Undef)
            ELSE IF IsNaN(v) THEN Thrown
            ELSE IF Below(v.n, field.min) THEN Thrown
            ELSE IF Above(v.n, field.max) THEN Thrown
            ELSE Ok(Undef)
      \* (''+v).split(/\s*,\s*/): one address more than there are commas, and
      \* every one of them has an '@' with something on both sides
      [] name = T_emails ->
            LET str == IF TypeOf(v) = "string" THEN v.s ELSE <<>>
                commas == {i \in 1..Len(str) : str[i] = ","}
                \* the address after the comma at c (0: the first one), the
                \* blanks around the commas dropped
                next(c) == Min({d \in commas \cup {Len(str) + 1} : d > c})
                from(c) == IF c = 0 THEN 1 ELSE SkipSpaces(str, c + 1)
                to(c) == IF next(c) > Len(str) THEN Len(str)
                         ELSE BlanksBefore(str, next(c)) - 1
                valid(c) == \E i \in (from(c) + 1)..(to(c) - 1) : str[i] = "@"
            IN  IF Below(Cardinality(commas) + 1, field.min) THEN Thrown
                ELSE IF Above(Cardinality(commas) + 1, field.max) THEN Thrown
                ELSE Ok(Bool(\A c \in commas \cup {0} : valid(c)))
      \* /^mongodb(?:\+srv)?:\/\//.test(v)
      [] name = T_mongouri ->
            IF \E prefix \in {<<"m", "o", "n", "g", "o", "d", "b", ":", "/", "/">>,
                               <<"m", "o", "n", "g", "o", "d", "b", "+", "s", "r", "v",
                                 ":", "/", "/">>} :
                    /\ TypeOf(v) = "string"
                    /\ Len(v.s) >= Len(prefix)
                    /\ SubSeq(v.s, 1, Len(prefix)) = prefix
            THEN Ok(Undef)
            ELSE Thrown
      \* new URL(v): throws unless v opens with a scheme and ':'
      [] name = T_uri ->
            IF TypeOf(v) = "string"
               /\ \E i \in 2..Len(v.s) :
                     /\ v.s[i] = ":"
                     /\ \A j \in 1..(i - 1) : v.s[j] \notin {":", "/", " ", "@", "%", ","}
            THEN Ok(Val("object", <<>>, 0, ""))
            ELSE Thrown

\* a validator written in the field itself
CustomValidate(beh) ==
    CASE beh = "throws" -> Thrown
      [] beh = "false" -> Ok(Bool(FALSE))
      [] beh = "true" -> Ok(Bool(TRUE))
      [] beh = "null" -> Ok(Null)
      [] OTHER -> Ok(Undef)

\* String(v): what a template literal writes for a value
StringOf(v) ==
    LET RECURSIVE Digits(_)
        Digits(k) ==
            IF k < 10 THEN <<CHOOSE ch \in DigitChars : DigitVal(ch) = k>>
            ELSE Digits(k \div 10) \o <<CHOOSE ch \in DigitChars : DigitVal(ch) = k % 10>>
    IN  CASE v.t = "string" -> v.s
          [] v.t = "number" -> IF v.n < 0 THEN <<"-">> \o Digits(0 - v.n) ELSE Digits(v.n)
          [] v.t = "nan" -> <<"N", "a", "N">>
          [] v.t = "boolean" -> IF v.n # 0 THEN <<"t", "r", "u", "e">>
                                ELSE <<"f", "a", "l", "s", "e">>
          [] v.t = "undefined" -> <<"u", "n", "d", "e", "f", "i", "n", "e", "d">>
          [] v.t = "null" -> <<"n", "u", "l", "l">>
          \* the source text of the function
          [] v.t = "function" -> <<"(", ")", "=", ">">>
          [] OTHER -> <<"[", "o", "b", "j", "e", "c", "t", " ", "O", "b", "j", "e", "c", "t", "]">>

\* the uncast function of registry type `name`, called as (v, field)
UncastFn(name, v, field) ==
    CASE name = T_boolean ->
            \* the first entry of field.true, or of field.false
            Ok(Str(IF Truthy(v) THEN <<"t", "r", "u", "e">> ELSE <<"f", "a", "l", "s", "e">>))
      \* v.join(', '): no value of the model is an array, and nothing else has a join
      [] name = T_emails -> Thrown
      \* v.toString()
      [] name = T_uri ->
            IF v.t \in {"undefined", "null"} THEN Thrown ELSE Ok(Str(StringOf(v)))

(***************************************************************************)
(* Schema.getFieldSchema                                                   *)
(*   a raw field schema is [shape, type, required, default, defaultRaw,    *)
(*   validate, destruct, min, max]; type is [kind, name, alias]:           *)
(*     shape "string"    : the bare string type.name                       *)
(*     shape "alias"     : a bare value; type.kind is "alias" when it is   *)
(*                         the key type.alias of `aliases`                 *)
(*     shape "object"    : an object; type.kind is "none" without a type   *)
(*                         key, "string", "alias" or "other"; required is  *)
(*                         "unset" when the object has no such key         *)
(*     shape "undefined" : undefined                                       *)
(***************************************************************************)
Failed(msg) == [threw |-> TRUE, err |-> msg]

\* {...this.types[type], ...fieldSchema}
Inherit(type, required, raw, own) ==
    [threw |-> FALSE, err |-> "",
     fs |-> [type |-> type,
             required |-> required,
             default |-> IF own THEN raw.default ELSE Undef,
             defaultRaw |-> IF own THEN raw.defaultRaw ELSE Undef,
             cast |-> Types(type).cast,
             uncast |-> Types(type).uncast,
             validate |-> IF own /\ raw.validate.kind # "none"
                          THEN raw.validate ELSE Types(type).validate,
             destruct |-> IF own THEN raw.destruct
                          ELSE [set |-> FALSE, config |-> raw.destruct.config],
             min |-> IF own THEN raw.min ELSE Undef,
             max |-> IF own THEN raw.max ELSE Undef]]

\* the `required` of `{...defaults, ...rawFieldSchema}`
Required(raw, default) ==
    IF raw.required = "unset" THEN default ELSE raw.required = "true"

\* this.aliases: native types to registry names
AliasNames == {"Number", "String", "Boolean"}
Aliases(a) ==
    CASE a = "Number" -> T_number
      [] a = "String" -> T_string
      [] a = "Boolean" -> T_boolean

getFieldSchema(raw) ==
    LET typed(name, own) ==
            IF Registered(name)
            THEN Inherit(name, IF own THEN Required(raw, TRUE) ELSE TRUE, raw, own)
            ELSE Failed("Invalid schema type")
    IN  IF raw.shape = "string" THEN typed(ToLowerCase(raw.type.name), FALSE)
        ELSE IF raw.shape = "object" /\ raw.type.kind = "string"
             THEN typed(ToLowerCase(raw.type.name), TRUE)
        ELSE IF raw.shape = "alias" /\ raw.type.kind = "alias"
             THEN typed(Aliases(raw.type.alias), FALSE)
        ELSE IF raw.shape = "undefined"
             THEN Failed("TypeError")
        ELSE IF raw.shape = "object" /\ raw.type.kind = "alias"
             THEN typed(Aliases(raw.type.alias), TRUE)
        ELSE IF raw.shape = "object" /\ raw.type.kind = "other"
             THEN Failed("Invalid schema type")
        ELSE IF raw.shape = "object"
             THEN Inherit(T_any, Required(raw, FALSE), raw, TRUE)
        ELSE Failed("Unknown field type")

(***************************************************************************)
(* Schema.applyField                                                       *)
(*   the result is [threw, err, slot, calls]: slot is the value returned,  *)
(*   a plain value or a ConfigDestruct; calls lists the functions of the   *)
(*   field that ran ("default", "cast", "validate")                        *)
(***************************************************************************)
Slot(v) == [isCell |-> FALSE, v |-> v, c |-> FreshCell]
CellSlot(c) == [isCell |-> TRUE, v |-> CellObj, c |-> c]

Returned(slot, calls) == [threw |-> FALSE, err |-> "", slot |-> slot, calls |-> calls]
Raised(msg, calls) == [threw |-> TRUE, err |-> msg, slot |-> Slot(Undef), calls |-> calls]

\* val === undefined || val === ''
Blank(val) == val.t = "undefined" \/ (val.t = "string" /\ val.s = <<>>)

\* `.cast`: the outcome is [threw, err, val, calls]
applyCast(val, fs) ==
    IF fs.cast.kind = "none" \/ TypeOf(val) # "string"
    THEN [threw |-> FALSE, err |-> "", val |-> val, calls |-> <<>>]
    ELSE IF fs.cast.kind = "ptr" /\ ~Registered(fs.cast.name)
    THEN [threw |-> TRUE, err |-> "Cast pointer does not exist", val |-> val, calls |-> <<>>]
    ELSE IF fs.cast.kind = "ptr" /\ Types(fs.cast.name).cast.kind = "ptr"
    THEN [threw |-> TRUE, err |-> "Cast pointer is itself a string pointer", val |-> val, calls |-> <<>>]
    ELSE IF fs.cast.kind = "ptr" /\ Types(fs.cast.name).cast.kind = "none"
    THEN [threw |-> TRUE, err |-> "Failed to cast", val |-> val, calls |-> <<>>]
    ELSE LET r == CastFn(fs.cast.name, val, fs)
         IN  IF r.threw
             THEN [threw |-> TRUE, err |-> "Failed to cast", val |-> val, calls |-> <<"cast">>]
             ELSE [threw |-> FALSE, err |-> "", val |-> r.val, calls |-> <<"cast">>]

\* `.validate` that fails only when the validator throws
applyValidateThrowsOnly(val, fs) ==
    IF fs.validate.kind = "none"
    THEN [threw |-> FALSE, err |-> "", calls |-> <<>>]
    ELSE IF (IF fs.validate.kind = "custom"
             THEN CustomValidate(fs.validate.beh)
             ELSE ValidateFn(fs.validate.name, val, fs)).threw
         THEN [threw |-> TRUE, err |-> "Failed validation", calls |-> <<"validate">>]
         ELSE [threw |-> FALSE, err |-> "", calls |-> <<"validate">>]

\* `.validate`: the outcome is [threw, err, calls]
applyValidate(val, fs) ==
    IF fs.validate.kind = "none"
    THEN [threw |-> FALSE, err |-> "", calls |-> <<>>]
    ELSE IF fs.validate.kind = "ptr" /\ ~Registered(fs.validate.name)
    THEN [threw |-> TRUE, err |-> "Validate pointer does not exist", calls |-> <<>>]
    ELSE IF fs.validate.kind = "ptr" /\ Types(fs.validate.name).validate.kind = "ptr"
    THEN [threw |-> TRUE, err |-> "Validate pointer is itself a string pointer", calls |-> <<>>]
    ELSE IF fs.validate.kind = "ptr" /\ Types(fs.validate.name).validate.kind = "none"
    THEN [threw |-> TRUE, err |-> "Failed validation", calls |-> <<>>]
    ELSE LET r == IF fs.validate.kind = "custom"
                  THEN CustomValidate(fs.validate.beh)
                  ELSE ValidateFn(fs.validate.name, val, fs)
         IN  IF r.threw \/ (r.val.t # "undefined" /\ ~Truthy(r.val))
             THEN [threw |-> TRUE, err |-> "Failed validation", calls |-> <<"validate">>]
             ELSE [threw |-> FALSE, err |-> "", calls |-> <<"validate">>]

\* applyField once validate has run with outcome v on the cast outcome c
applyValidated(v, c, fs, t, calls) ==
    IF v.threw THEN Raised(v.err, calls \o c.calls \o v.calls)
    ELSE Returned(IF fs.destruct.set
                  THEN CellSlot(ConfigDestruct(c.val, fs.destruct.config, t))
                  ELSE Slot(c.val),
                  calls \o c.calls \o v.calls)

\* applyField once cast has run with outcome c
applyCasted(c, fs, t, calls) ==
    IF c.threw THEN Raised(c.err, calls \o c.calls)
    ELSE IF fs.required /\ c.val.t = "undefined"
    THEN Raised("Value required", calls \o c.calls)
    ELSE applyValidated(applyValidate(c.val, fs), c, fs, t, calls)

\* applyField without the return of undefined for a blank optional value
applyCheckedAlways(val, fs, t, calls) ==
    applyCasted(applyCast(val, fs), fs, t, calls)

\* applyField from `.required` on
applyChecked(val, fs, t, calls) ==
    IF ~fs.required /\ Blank(val) THEN Returned(Slot(Undef), calls)
    ELSE applyCasted(applyCast(val, fs), fs, t, calls)

\* `.default` returned as it is, string or not
applyDefaultedVerbatim(d, fs, t, calls) ==
    IF d.threw THEN Raised("default threw", calls)
    ELSE Returned(Slot(d.val), calls)

\* `.default` has given d; calls lists "default" when it was a function
applyDefaulted(d, fs, t, calls) ==
    IF d.threw THEN Raised("default threw", calls)
    ELSE IF TypeOf(d.val) = "string"
    THEN applyChecked(d.val, fs, t, calls)
    ELSE Returned(Slot(d.val), calls)

\* applyField that casts and validates defaultRaw like a raw value
applySchemaCastRaw(val, g, t) ==
    IF g.threw THEN Raised(g.err, <<>>)
    ELSE IF g.fs.defaultRaw.t # "undefined"
    THEN applyChecked(g.fs.defaultRaw, g.fs, t, <<>>)
    ELSE applyChecked(val, g.fs, t, <<>>)

\* applyField once getFieldSchema has given g
applySchema(val, g, t) ==
    IF g.threw THEN Raised(g.err, <<>>)
    ELSE IF g.fs.defaultRaw.t # "undefined"
    THEN Returned(Slot(g.fs.defaultRaw), <<>>)
    ELSE IF g.fs.default.t # "undefined" /\ Blank(val)
    THEN applyDefaulted(Call(g.fs.default), g.fs, t,
                        IF TypeOf(g.fs.default) = "function" THEN <<"default">> ELSE <<>>)
    ELSE applyChecked(val, g.fs, t, <<>>)

\* applyField(val, rawFieldSchema), called at time t
applyField(val, raw, t) == applySchema(val, getFieldSchema(raw), t)

(***************************************************************************)
(* Objects: the sequence of [k, slot] entries in insertion order           *)
(***************************************************************************)
Keys(obj) == {obj[i].k : i \in 1..Len(obj)}
Index(obj, k) == CHOOSE i \in 1..Len(obj) : obj[i].k = k
\* obj[k]
Get(obj, k) == IF k \in Keys(obj) THEN obj[Index(obj, k)].slot ELSE Slot(Undef)
\* obj[k] = slot
Put(obj, k, slot) ==
    IF k \in Keys(obj)
    THEN [obj EXCEPT ![Index(obj, k)] = [k |-> k, slot |-> slot]]
    ELSE Append(obj, [k |-> k, slot |-> slot])

\* the get trap of the Proxy apply() returns, at time t: the outcome is
\* [threw, val, obj], obj being the target after the read
ProxyGet(obj, k, t) ==
    LET target == Get(obj, k)
    IN  IF target.isCell
        THEN LET r == toConfig(target.c, t)
             IN  [threw |-> r.out.threw, val |-> r.out.val,
                  obj |-> Put(obj, k, CellSlot(r.cell))]
        ELSE IF target.v.t = "null"
        THEN [threw |-> TRUE, val |-> Undef, obj |-> obj]
        ELSE [threw |-> FALSE, val |-> target.v, obj |-> obj]

\* obj[k] on a plain object
PlainGet(obj, k) == [threw |-> FALSE, val |-> Get(obj, k).v, obj |-> obj]

\* config[k] where config is the Proxy of an earlier apply() or a plain object
Read(obj, proxied, k, t) ==
    IF proxied THEN ProxyGet(obj, k, t) ELSE PlainGet(obj, k)

\* Object.entries(obj) / {...obj}: every key is read in order; the outcome is
\* [threw, entries, obj]
RECURSIVE EntriesFrom(_, _, _, _, _)
EntriesFrom(obj, proxied, t, i, acc) ==
    IF i > Len(obj) THEN [threw |-> FALSE, entries |-> acc, obj |-> obj]
    ELSE IF ~proxied
    THEN EntriesFrom(obj, proxied, t, i + 1, Append(acc, obj[i]))
    ELSE LET r == ProxyGet(obj, obj[i].k, t)
         IN  IF r.threw THEN [threw |-> TRUE, entries |-> <<>>, obj |-> r.obj]
             ELSE EntriesFrom(r.obj, proxied, t, i + 1,
                              Append(acc, [k |-> obj[i].k, slot |-> Slot(r.val)]))
Entries(obj, proxied, t) == EntriesFrom(obj, proxied, t, 1, <<>>)

\* Object.assign(target, entries) / Object.fromEntries
RECURSIVE Assign(_, _)
Assign(target, entries) ==
    IF entries = <<>> THEN target
    ELSE Assign(Put(target, Head(entries).k, Head(entries).slot), Tail(entries))

(***************************************************************************)
(* Schema.apply                                                            *)
(*   fields: the entries [k, raw] of this.fields in declaration order      *)
(*   the outcome is [threw, err, obj, config, calls, proxied]:             *)
(*     err    the error thrown: [field, msg, cause]                        *)
(*     obj    the target of the Proxy returned                             *)
(*     config the config after the reads apply() made of it                *)
(*     calls  the <<field, function>> pairs that ran, in order             *)
(***************************************************************************)
NoErr == [field |-> <<>>, msg |-> "", cause |-> ""]
Tag(k, calls) == [i \in 1..Len(calls) |-> <<k, calls[i]>>]

\* the map() over Object.entries(this.fields): [threw, err, entries, config, calls]
\*   applyFields      the entries from the i-th on
\*   applyFieldsRead  the i-th entry once config[path] has been read as rd
\*   applyFieldsDone  the i-th entry once applyField has given r
RECURSIVE applyFields(_, _, _, _, _, _, _)
RECURSIVE applyFieldsRead(_, _, _, _, _, _, _)
RECURSIVE applyFieldsDone(_, _, _, _, _, _, _, _)
applyFieldsDone(fields, rd, r, proxied, t, i, acc, calls) ==
    IF r.threw
    THEN [threw |-> TRUE,
          err |-> [field |-> fields[i].k, msg |-> "Env", cause |-> r.err],
          entries |-> <<>>, config |-> rd.obj,
          calls |-> calls \o Tag(fields[i].k, r.calls)]
    ELSE applyFields(fields, rd.obj, proxied, t, i + 1,
                     Append(acc, [k |-> fields[i].k, slot |-> r.slot]),
                     calls \o Tag(fields[i].k, r.calls))

applyFieldsRead(fields, rd, proxied, t, i, acc, calls) ==
    IF rd.threw
    THEN [threw |-> TRUE,
          err |-> [field |-> fields[i].k, msg |-> "Env", cause |-> "read threw"],
          entries |-> <<>>, config |-> rd.obj, calls |-> calls]
    ELSE applyFieldsDone(fields, rd, applyField(rd.val, fields[i].raw, t),
                         proxied, t, i, acc, calls)

\* a map() that notes the first error, goes on with the other fields and
\* throws at the end
RECURSIVE applyFieldsCollect(_, _, _, _, _, _, _)
applyFieldsCollect(fields, config, proxied, t, i, acc, calls) ==
    IF i > Len(fields)
    THEN [threw |-> FALSE, err |-> NoErr, entries |-> acc, config |-> config, calls |-> calls]
    ELSE LET path == fields[i].k
             rd == Read(config, proxied, path, t)
             r == applyField(rd.val, fields[i].raw, t)
             rest == applyFieldsCollect(fields, rd.obj, proxied, t, i + 1,
                                        Append(acc, [k |-> path, slot |-> r.slot]),
                                        calls \o Tag(path, r.calls))
         IN  IF rd.threw \/ r.threw
             THEN [threw |-> TRUE,
                   err |-> [field |-> path, msg |-> "Env",
                            cause |-> IF rd.threw THEN "read threw" ELSE r.err],
                   entries |-> <<>>, config |-> rest.config, calls |-> rest.calls]
             ELSE rest

applyFields(fields, config, proxied, t, i, acc, calls) ==
    IF i > Len(fields)
    THEN [threw |-> FALSE, err |-> NoErr, entries |-> acc, config |-> config, calls |-> calls]
    ELSE applyFieldsRead(fields, Read(config, proxied, fields[i].k, t),
                         proxied, t, i, acc, calls)

\* the Proxy target: Object.assign of base with the entries f of the fields
applyAssign(f, base) ==
    IF base.threw
    THEN [threw |-> TRUE, err |-> [field |-> <<>>, msg |-> "", cause |-> "read threw"],
          obj |-> <<>>, config |-> base.obj, calls |-> f.calls]
    ELSE [threw |-> FALSE, err |-> NoErr,
          obj |-> Assign(base.entries, f.entries),
          config |-> base.obj, calls |-> f.calls]

\* apply once the map() over the fields has given f
applyMapped(f, reject, proxied, t) ==
    IF f.threw
    THEN [threw |-> TRUE, err |-> f.err, obj |-> <<>>, config |-> f.config, calls |-> f.calls]
    ELSE applyAssign(f, IF reject THEN [threw |-> FALSE, entries |-> <<>>, obj |-> f.config]
                        ELSE Entries(f.config, proxied, t))

apply(fields, reject, config, proxied, t) ==
    applyMapped(applyFields(fields, config, proxied, t, 1, <<>>, <<>>), reject, proxied, t)

(***************************************************************************)
(* Schema.apply over bounded inputs                                        *)
(***************************************************************************)
KeyP == <<"P">>
KeyQ == <<"Q">>

NoType == [kind |-> "none", name |-> <<>>, alias |-> ""]
StringType(name) == [kind |-> "string", name |-> name, alias |-> ""]
AliasType(a) == [kind |-> "alias", name |-> <<>>, alias |-> a]

\* destruct: '250ms'
DestructIn250 ==
    [set |-> TRUE,
     config |-> [at |-> [kind |-> "duration", ms |-> 250],
                 destructValue |-> Omitted, tick |-> 0 - 1]]
\* destruct: {at: '250ms', destructValue: 'NO'}
DestructIn250Value ==
    [set |-> TRUE,
     config |-> [at |-> [kind |-> "duration", ms |-> 250],
                 destructValue |-> Str(<<"N", "O">>), tick |-> 0 - 1]]
\* destruct: {at: '500ms', tick: 250}
DestructIn500Tick250 ==
    [set |-> TRUE,
     config |-> [at |-> [kind |-> "duration", ms |-> 500],
                 destructValue |-> Omitted, tick |-> 250]]
NoDestruct == [DestructIn250 EXCEPT !.set = FALSE]

\* an object field schema with nothing but its type
Field(type) ==
    [shape |-> "object", type |-> type, required |-> "unset",
     default |-> Undef, defaultRaw |-> Undef, validate |-> NoFn,
     destruct |-> NoDestruct, min |-> Undef, max |-> Undef]
Bare(shape, type) == [Field(type) EXCEPT !.shape = shape]

Twelve == <<"1", "2">>
Hi == <<"h", "i">>

ApplyRawFields ==
    { Bare("alias", AliasType("String")),
      Bare("string", StringType(<<"N", "U", "M", "B", "E", "R">>)),
      Bare("string", StringType(<<"!", "!">>)),
      Field(AliasType("Boolean")),
      [Field(StringType(T_string)) EXCEPT !.destruct = DestructIn250],
      [Field(StringType(T_number)) EXCEPT !.required = "false", !.default = Str(Twelve),
                                          !.destruct = DestructIn250],
      [Field(StringType(T_number)) EXCEPT !.default = Num(7), !.destruct = DestructIn250],
      [Field(StringType(T_string)) EXCEPT !.defaultRaw = Str(Hi), !.destruct = DestructIn250],
      [Field(StringType(T_number)) EXCEPT !.default = FnRet(Str(Twelve)),
                                          !.validate = CustomFn("false")],
      [Field(NoType) EXCEPT !.validate = CustomFn("true")],
      [Field(StringType(T_percent)) EXCEPT !.min = Num(10), !.max = Num(100)] }
    \cup \* every shape of a field schema, with each setting of `required`
    { [Field(type) EXCEPT !.required = req] :
        type \in {NoType, StringType(T_number), StringType(<<"N", "U", "M", "B", "E", "R">>),
                  AliasType("Number"), StringType(T_constructor),
                  [kind |-> "other", name |-> <<>>, alias |-> ""]},
        req \in {"unset", "true", "false"} }
    \cup { Bare("alias", AliasType("Number")), Bare("alias", NoType),
           Bare("string", StringType(T_constructor)), Bare("undefined", NoType),
           Bare("alias", AliasType("Boolean")), Bare("string", StringType(T_emails)),
           Bare("string", StringType(T_mongouri)), Bare("string", StringType(T_uri)) }
    \cup \* default and defaultRaw
    { [Field(StringType(type)) EXCEPT !.required = req, !.default = def,
                                      !.defaultRaw = defRaw, !.validate = val] :
        type \in {T_string, T_number},
        req \in {"unset", "false"},
        def \in {Undef, Str(Twelve), Str(<<>>), Num(7), Null, FnRet(Str(Twelve)), FnRet(Undef)},
        defRaw \in {Undef, Str(Twelve)},
        val \in {NoFn, CustomFn("false")} }
    \cup \* validators of the field itself
    { [Field(type) EXCEPT !.required = req, !.validate = CustomFn(beh)] :
        type \in {NoType, StringType(T_number)},
        req \in {"unset", "false"},
        beh \in {"throws", "false", "null", "true", "undefined"} }
    \cup \* min and max
    { [Field(StringType(type)) EXCEPT !.required = req, !.min = Num(10), !.max = Num(100)] :
        type \in {T_number, T_percent, T_string},
        req \in {"unset", "true", "false"} }

ApplyRawVals ==
    {Undef, Str(<<>>), Str(Hi), Str(Twelve)}
    \cup {Str(<<"0">>), Str(<<"9">>), Str(<<"1", "0">>), Str(<<"1", "0", "0">>),
          Str(<<"1", "0", "1">>), Str(<<"1", "1", " ", "%">>)}
    \cup {Str(<<"y", "e", "s">>), Str(<<"a", "@", "b">>),
          Str(<<"m", "o", "n", "g", "o", "d", "b", ":", "/", "/", "h">>)}

ApplyInit ==
    /\ now = 0
    /\ cell = FreshCell
    /\ \E f1 \in ApplyRawFields, v1 \in ApplyRawVals, flip, reject \in BOOLEAN,
          f2 \in {Bare("string", StringType(<<"!", "!">>)),
                  [Field(StringType(T_string)) EXCEPT !.destruct = DestructIn250],
                  [Field(StringType(T_number)) EXCEPT !.default = FnRet(Str(Twelve)),
                                                      !.validate = CustomFn("false")]},
          v2 \in {Undef, Str(Hi)} :
         args = [fields |-> IF flip THEN <<[k |-> KeyQ, raw |-> f2], [k |-> KeyP, raw |-> f1]>>
                                    ELSE <<[k |-> KeyP, raw |-> f1], [k |-> KeyQ, raw |-> f2]>>,
                 config |-> <<[k |-> KeyP, slot |-> Slot(v1)], [k |-> KeyQ, slot |-> Slot(v2)]>>,
                 reject |-> reject]
    /\ ret = [op |-> "new", out |-> apply(<<>>, TRUE, <<>>, FALSE, 0)]
    /\ env = <<>>

\* new Schema(fields, {reject}).apply(config)
Apply ==
    /\ ret.op = "new"
    /\ ret' = [op |-> "apply",
               out |-> apply(args.fields, args.reject, args.config, FALSE, now)]
    /\ UNCHANGED <<now, cell, args, env>>

\* new Schema(fields).applyField(config[path], fields[path]) for one field
ApplyField ==
    \E i \in 1..Len(args.fields) :
        /\ ret.op = "new"
        /\ ret' = [op |-> "applyField", i |-> i,
                   out |-> applyField(Get(args.config, args.fields[i].k).v,
                                      args.fields[i].raw, now)]
        /\ UNCHANGED <<now, cell, args, env>>

\* new Schema(fields).getFieldSchema(fields[path]) for one field
GetFieldSchema ==
    \E i \in 1..Len(args.fields) :
        /\ ret.op = "new"
        /\ ret' = [op |-> "getFieldSchema", i |-> i,
                   out |-> getFieldSchema(args.fields[i].raw)]
        /\ UNCHANGED <<now, cell, args, env>>

\* config[k] for a key of the Proxy that apply() returned
ReadConfig ==
    /\ ret.op = "apply"
    /\ ~ret.out.threw
    /\ \E k \in Keys(ret.out.obj) :
          ret' = [op |-> "read", key |-> k, stored |-> Get(ret.out.obj, k),
                  out |-> ProxyGet(ret.out.obj, k, now)]
    /\ UNCHANGED <<now, cell, args, env>>

\* a field's value written by export and read back: applyField of a raw
\* value, `field.uncast ? field.uncast(val, field)` on what it gives, and
\* applyField of that string
CastUncast ==
    \E i \in 1..Len(args.fields) :
        \E g \in {getFieldSchema(args.fields[i].raw)},
           r \in {applyField(Get(args.config, args.fields[i].k).v, args.fields[i].raw, now)} :
            /\ ret.op = "new"
            /\ ~g.threw
            /\ g.fs.uncast.kind # "none"
            /\ ~r.threw
            /\ \E u \in {IF g.fs.uncast.kind = "ptr" THEN Thrown
                          ELSE UncastFn(g.fs.uncast.name, r.slot.v, g.fs)} :
                  ret' = [op |-> "uncast", i |-> i, out |-> r, uncast |-> u,
                          recast |-> applyField(u.val, args.fields[i].raw, now)]
            /\ UNCHANGED <<now, cell, args, env>>

ApplyNext == Apply \/ ApplyField \/ GetFieldSchema \/ ReadConfig \/ CastUncast

SpecApply == ApplyInit /\ [][ApplyNext]_vars

(***************************************************************************)
(* DotEnv                                                                  *)
(*   env.state     #state: the target object                               *)
(*   env.proxied   #state is the Proxy an apply() returned                 *)
(*   env.hasSchema #schema is set; env.fields, env.reject: its fields and  *)
(*                 options                                                 *)
(*   env.ops       calls made so far                                       *)
(*   env.deadline  for each key, the destruct date its latest declaration  *)
(*                 by schema() or schemaGlob() gave it, -1 when that       *)
(*                 declaration has no destruct or there is none            *)
(***************************************************************************)
EnvKeys == {KeyP, KeyQ}
EnvRet(op, k, threw, val) == [op |-> op, key |-> k, threw |-> threw, val |-> val]

EnvInit ==
    /\ now = 0
    /\ cell = FreshCell
    /\ args = <<>>
    /\ ret = EnvRet("new", <<>>, FALSE, Undef)
    /\ env = [state |-> <<>>, proxied |-> FALSE, hasSchema |-> FALSE,
              fields |-> <<>>, reject |-> TRUE, ops |-> 0,
              deadline |-> [k \in EnvKeys |-> NoTimer]]

\* the deadlines after a call declared the keys `declared`, giving the state `after`
Deadlines(after, declared) ==
    [k \in EnvKeys |->
        IF k \notin declared THEN env.deadline[k]
        ELSE IF Get(after, k).isCell THEN Get(after, k).c.destructDate
        ELSE NoTimer]

ParseInputs ==
    { <<[k |-> KeyP, slot |-> Slot(Str(Secret))]>>,
      <<[k |-> KeyP, slot |-> Slot(Str(Secret))], [k |-> KeyQ, slot |-> Slot(Str(Twelve))]>> }

\* parse(input)
Parse ==
    \E input \in ParseInputs :
        /\ env.ops < MaxOps
        /\ env' = [env EXCEPT !.state = input, !.proxied = FALSE, !.ops = @ + 1,
                              !.deadline = [k \in EnvKeys |-> NoTimer]]
        /\ ret' = EnvRet("parse", <<>>, FALSE, Undef)
        /\ UNCHANGED <<now, cell, args>>

\* set(key, value)
Set ==
    /\ env.ops < MaxOps
    /\ env' = [env EXCEPT !.state = Put(@, KeyQ, Slot(Str(Hi))), !.ops = @ + 1]
    /\ ret' = EnvRet("set", KeyQ, FALSE, Undef)
    /\ UNCHANGED <<now, cell, args>>

\* merge({Q: 'hi'})
Merge ==
    /\ env.ops < MaxOps
    /\ env' = [env EXCEPT !.state = Assign(@, <<[k |-> KeyQ, slot |-> Slot(Str(Hi))]>>),
                          !.ops = @ + 1]
    /\ ret' = EnvRet("merge", <<>>, FALSE, Undef)
    /\ UNCHANGED <<now, cell, args>>

SecretField == [Field(StringType(T_string)) EXCEPT !.destruct = DestructIn250]
SchemaInputs ==
    { [fields |-> <<[k |-> KeyP, raw |-> SecretField]>>, reject |-> TRUE],
      [fields |-> <<[k |-> KeyP, raw |-> [SecretField EXCEPT !.destruct = DestructIn250Value]],
                    [k |-> KeyQ, raw |-> Bare("alias", AliasType("Number"))]>>,
       reject |-> FALSE],
      [fields |-> <<[k |-> KeyP, raw |-> [SecretField EXCEPT !.destruct = DestructIn500Tick250]]>>,
       reject |-> TRUE] }

\* schema(input, options)
Schema ==
    \E input \in SchemaInputs :
        \E r \in {apply(input.fields, input.reject, env.state, env.proxied, now)} :
            /\ env.ops < MaxOps
            /\ env' = [env EXCEPT !.hasSchema = TRUE,
                                  !.fields = input.fields,
                                  !.reject = input.reject,
                                  !.state = IF r.threw THEN r.config ELSE r.obj,
                                  !.proxied = IF r.threw THEN @ ELSE TRUE,
                                  !.deadline = IF r.threw THEN @
                                               ELSE Deadlines(r.obj, Keys(input.fields)),
                                  !.ops = @ + 1]
            /\ ret' = EnvRet("schema", <<>>, r.threw, Undef)
            /\ UNCHANGED <<now, cell, args>>

\* micromatch.makeRe(glob).test(key) for the globs 'P' and '*'
Matches(glob, k) == glob = <<"*">> \/ glob = k

\* this.#schema.fields[key] = fieldSchema
PutField(fields, key, raw) ==
    IF key \in Keys(fields)
    THEN [fields EXCEPT ![Index(fields, key)] = [k |-> key, raw |-> raw]]
    ELSE Append(fields, [k |-> key, raw |-> raw])

\* the forEach of schemaGlob over the matching entries: [threw, state, fields]
\*   globEach     the entries from the i-th on
\*   globApplied  the i-th entry once applyField has given r
RECURSIVE globEach(_, _, _, _, _, _, _)
RECURSIVE globApplied(_, _, _, _, _, _, _, _)
globApplied(entries, glob, raw, t, i, state, fields, r) ==
    IF r.threw THEN [threw |-> TRUE, state |-> state, fields |-> fields]
    ELSE globEach(entries, glob, raw, t, i + 1, Put(state, entries[i].k, r.slot), fields)

\* a forEach over every entry, matching or not
RECURSIVE globEachAll(_, _, _, _, _, _, _)
globEachAll(entries, glob, raw, t, i, state, fields) ==
    IF i > Len(entries) THEN [threw |-> FALSE, state |-> state, fields |-> fields]
    ELSE LET r == applyField(entries[i].slot.v, raw, t)
         IN  IF r.threw
             THEN [threw |-> TRUE, state |-> state,
                   fields |-> PutField(fields, entries[i].k, raw)]
             ELSE globEachAll(entries, glob, raw, t, i + 1,
                              Put(state, entries[i].k, r.slot),
                              PutField(fields, entries[i].k, raw))

globEach(entries, glob, raw, t, i, state, fields) ==
    IF i > Len(entries) THEN [threw |-> FALSE, state |-> state, fields |-> fields]
    ELSE IF ~Matches(glob, entries[i].k)
    THEN globEach(entries, glob, raw, t, i + 1, state, fields)
    ELSE globApplied(entries, glob, raw, t, i, state,
                     PutField(fields, entries[i].k, raw),
                     applyField(entries[i].slot.v, raw, t))

\* schemaGlob(glob, fieldSchema)
SchemaGlob ==
    \E glob \in {KeyP, <<"*">>}, raw \in {SecretField, Bare("alias", AliasType("String"))} :
        \E e \in {Entries(env.state, env.proxied, now)} :
        \E r \in {globEach(e.entries, glob, raw, now, 1, e.obj,
                            IF env.hasSchema THEN env.fields ELSE <<>>)} :
            /\ env.ops < MaxOps
            /\ env' = [env EXCEPT !.hasSchema = TRUE,
                                  !.reject = IF env.hasSchema THEN @ ELSE TRUE,
                                  !.fields = IF e.threw THEN @ ELSE r.fields,
                                  !.state = IF e.threw THEN e.obj ELSE r.state,
                                  !.deadline = IF e.threw THEN @
                                               ELSE Deadlines(r.state,
                                                   {k \in Keys(e.entries) : Matches(glob, k)}),
                                  !.ops = @ + 1]
            /\ ret' = EnvRet("schemaGlob", glob, e.threw \/ r.threw, Undef)
            /\ UNCHANGED <<now, cell, args>>

\* the entries Object.fromEntries is given for the return of func([key, val]),
\* for the functions of the model:
\*   "tuple"     ([key, val]) => [key, val]
\*   "filter"    ([key]) => /^P/.test(key)
\*   "object"    ([key, val]) => ({[key]: val}): Object.entries of it, the array
\*               [[key, val]], is taken as one entry: its first element, written
\*               as a string, is the key and its second, undefined, the value
MapFunc(func, entry) ==
    IF func = "tuple" THEN <<entry>>
    ELSE IF func = "object"
    THEN <<[k |-> entry.k \o <<",">>
                  \o (IF entry.slot.v.t \in {"undefined", "null"} THEN <<>>
                      ELSE StringOf(entry.slot.v)),
            slot |-> Slot(Undef)]>>
    ELSE IF entry.k[1] = "P" THEN <<entry>> ELSE <<>>

RECURSIVE FlatMap(_, _)
FlatMap(func, entries) ==
    IF entries = <<>> THEN <<>>
    ELSE MapFunc(func, Head(entries)) \o FlatMap(func, Tail(entries))

\* map(func): the worker rebuilds #state from Object.entries(#state)
mapEntries(e, proxied, func) ==
    IF e.threw THEN [threw |-> TRUE, state |-> e.obj, proxied |-> proxied]
    ELSE [threw |-> FALSE, state |-> Assign(<<>>, FlatMap(func, e.entries)),
          proxied |-> FALSE]
map(state, proxied, func, t) == mapEntries(Entries(state, proxied, t), proxied, func)

Map ==
    \E func \in {"tuple", "filter", "object"} :
        \E r \in {map(env.state, env.proxied, func, now)} :
            /\ env.ops < MaxOps
            /\ env' = [env EXCEPT !.state = r.state, !.proxied = r.proxied, !.ops = @ + 1]
            /\ ret' = [op |-> "map", key |-> <<>>, threw |-> r.threw, val |-> Undef,
                       func |-> func]
            /\ UNCHANGED <<now, cell, args>>

\* settings.rewritePair(key, val, field, settings) with the default settings:
\* [threw, line]; no field of the model has a `help`
rewritePair(key, val, field) ==
    IF field.uncast.kind = "none"
    THEN [threw |-> FALSE,
          line |-> key \o <<"=">> \o (IF Truthy(val) THEN StringOf(val) ELSE <<>>)]
    \* a string pointer is not a function
    ELSE IF field.uncast.kind = "ptr" THEN [threw |-> TRUE, line |-> <<>>]
    ELSE LET r == UncastFn(field.uncast.name, val, field)
         IN  IF r.threw THEN [threw |-> TRUE, line |-> <<>>]
             ELSE [threw |-> FALSE, line |-> key \o <<"=">> \o StringOf(r.val)]

\* the map() of export over Object.entries(this.#state): [threw, err, lines],
\* lines being the items of every entry, flattened
\*   exportEntries  the entries from the i-th on; currentHeader is <<>> while
\*                  it is undefined
\*   exportField    the i-th entry once getFieldSchema has given g
RECURSIVE exportEntries(_, _, _, _, _, _)
exportField(entries, fields, values, i, currentHeader, acc, g) ==
    LET key == entries[i].k
        \* settings.header.exec(key) for /^(.+?)_/: up to the first '_' that is
        \* not the first character; 0 when there is no match
        us == {j \in 2..Len(key) : key[j] = "_"}
        extractedHeader == SubSeq(key, 1, Min(us) - 1)
        val == IF values THEN [threw |-> FALSE, val |-> entries[i].slot.v]
               ELSE Call(g.fs.default)
        item == IF currentHeader = <<>> \/ currentHeader # extractedHeader
                THEN (IF currentHeader # <<>> THEN << <<>> >> ELSE <<>>)
                     \o << <<"#", " ">> \o extractedHeader \o <<" ", "#">> >>
                ELSE <<>>
        pair == rewritePair(key, val.val, g.fs)
    IN  IF g.threw THEN [threw |-> TRUE, err |-> g.err, lines |-> <<>>]
        ELSE IF val.threw THEN [threw |-> TRUE, err |-> "default threw", lines |-> <<>>]
        ELSE IF us = {} THEN [threw |-> TRUE, err |-> "TypeError: header", lines |-> <<>>]
        ELSE IF pair.threw THEN [threw |-> TRUE, err |-> "TypeError: uncast", lines |-> <<>>]
        ELSE exportEntries(entries, fields, values, i + 1, extractedHeader,
                           acc \o item \o <<pair.line>>)

exportEntries(entries, fields, values, i, currentHeader, acc) ==
    IF i > Len(entries) THEN [threw |-> FALSE, err |-> "", lines |-> acc]
    ELSE exportField(entries, fields, values, i, currentHeader, acc,
                     getFieldSchema(IF entries[i].k \in Keys(fields)
                                    THEN fields[Index(fields, entries[i].k)].raw
                                    ELSE Bare("undefined", NoType)))

\* export({values}) at time t: [threw, err, lines, obj]; the string returned is
\* the lines joined by '\n', obj is #state after the reads
export(state, proxied, hasSchema, fields, values, t) ==
    LET e == Entries(state, proxied, t)
        r == exportEntries(e.entries, fields, values, 1, <<>>, <<>>)
    IN  IF ~hasSchema
        THEN [threw |-> TRUE, err |-> "Schema has not yet been applied",
              lines |-> <<>>, obj |-> state]
        ELSE IF e.threw
        THEN [threw |-> TRUE, err |-> "read threw", lines |-> <<>>, obj |-> e.obj]
        ELSE [threw |-> r.threw, err |-> r.err, lines |-> r.lines, obj |-> e.obj]

\* export(), export({values: false})
Export ==
    \E values \in BOOLEAN :
        \E r \in {export(env.state, env.proxied, env.hasSchema, env.fields, values, now)} :
            /\ env' = [env EXCEPT !.state = r.obj]
            /\ ret' = [op |-> "export", key |-> <<>>, threw |-> r.threw, val |-> Undef,
                       values |-> values, err |-> r.err, lines |-> r.lines]
            /\ UNCHANGED <<now, cell, args>>

\* value()[k]
ReadKey(k) ==
    \E r \in {Read(env.state, env.proxied, k, now)} :
        /\ env' = [env EXCEPT !.state = r.obj]
        /\ ret' = EnvRet("read", k, r.threw, r.val)
        /\ UNCHANGED <<now, cell, args>>

ReadValue == \E k \in EnvKeys : ReadKey(k)

\* a timer of the cell under key k fires
EnvTimerFire ==
    \E k \in Keys(env.state) :
        LET c == Get(env.state, k).c
        IN  /\ Get(env.state, k).isCell
            /\ c.handleAt >= 0
            /\ c.handleAt <= now
            /\ env' = [env EXCEPT !.state =
                         Put(@, k, CellSlot(timerTick([c EXCEPT !.handleAt = NoTimer], now)))]
            /\ UNCHANGED <<now, cell, args, ret>>

EnvTimerFireLeaked ==
    \E k \in Keys(env.state) :
        LET c == Get(env.state, k).c
        IN  /\ Get(env.state, k).isCell
            /\ \E x \in BagToSet(c.leaked) :
                  /\ x <= now
                  /\ env' = [env EXCEPT !.state =
                               Put(@, k, CellSlot(timerTick(
                                   [c EXCEPT !.leaked = @ (-) SetToBag({x})], now)))]
            /\ UNCHANGED <<now, cell, args, ret>>

EnvPendingTimes ==
    UNION {PendingTimes(Get(env.state, k).c) : k \in {x \in Keys(env.state) : Get(env.state, x).isCell}}

EnvAdvanceTime ==
    /\ now < MaxTime
    /\ \A x \in EnvPendingTimes : x > now
    /\ now' = Min({now + Step} \cup EnvPendingTimes)
    /\ UNCHANGED <<cell, args, ret, env>>

EnvNext ==
    \/ Parse
    \/ Set
    \/ Merge
    \/ Schema
    \/ SchemaGlob
    \/ Map
    \/ Export
    \/ ReadValue
    \/ EnvTimerFire
    \/ EnvTimerFireLeaked
    \/ EnvAdvanceTime

SpecDotEnv == EnvInit /\ [][EnvNext]_vars

\* new DotEnv().parse(input).schema(fields) over three keys, two of them with
\* the prefix A, in either order; the calls that throw are left out
ExportInit ==
    /\ now = 0
    /\ cell = FreshCell
    /\ args = <<>>
    /\ ret = EnvRet("schema", <<>>, FALSE, Undef)
    /\ \E keys \in {<< <<"A", "_", "X">>, <<"A", "_", "Z">>, <<"B", "_", "Y">> >>,
                     << <<"A", "_", "X">>, <<"B", "_", "Y">>, <<"A", "_", "Z">> >>},
          f1 \in {Bare("alias", AliasType("Number")),
                  [Field(AliasType("Number")) EXCEPT !.required = "false", !.default = Num(7)]},
          v1 \in {Undef, Str(<<"0">>), Str(Twelve)},
          f2 \in {Bare("alias", AliasType("String")), Bare("string", StringType(T_mongouri)),
                  Bare("string", StringType(T_emails)), SecretField},
          v2 \in {Str(<<"m", "o", "n", "g", "o", "d", "b", ":", "/", "/", "h">>),
                  Str(<<"a", "@", "b">>)},
          f3 \in {Bare("alias", AliasType("Boolean")),
                  [Field(AliasType("Boolean")) EXCEPT !.required = "false"]},
          v3 \in {Undef, Str(<<"y", "e", "s">>), Str(<<"n", "o">>)} :
         \E fields \in {<<[k |-> keys[1], raw |-> f1], [k |-> keys[2], raw |-> f2],
                           [k |-> keys[3], raw |-> f3]>>} :
         \E r \in {apply(fields, TRUE,
                          <<[k |-> keys[1], slot |-> Slot(v1)], [k |-> keys[2], slot |-> Slot(v2)],
                            [k |-> keys[3], slot |-> Slot(v3)]>>, FALSE, 0)} :
            /\ ~r.threw
            /\ env = [state |-> r.obj, proxied |-> TRUE, hasSchema |-> TRUE,
                      fields |-> fields, reject |-> TRUE, ops |-> 2,
                      deadline |-> [k \in EnvKeys |-> NoTimer]]

SpecExport == ExportInit /\ [][Export]_vars

(***************************************************************************)
(* What the constructor was asked for (the cell is constructed at time 0)  *)
(***************************************************************************)
CtorDeadline ==
    IF args.config.at.kind = "omitted" THEN AtDefault ELSE args.config.at.ms
CtorTick ==
    IF args.config.tick = 0 - 1 THEN TickDefault ELSE args.config.tick
CtorValue == Call(args.value)
CtorReplacement ==
    IF args.config.destructValue = Omitted THEN Thrown
    ELSE Call(args.config.destructValue)

(***************************************************************************)
(* C2: toConfig() returns the original value on every read strictly        *)
(* before the deadline; a read at or after the deadline leaves the cell    *)
(* destructed and yields the replacement (it throws when the replacement   *)
(* is the throwing function), and so does every later read.                *)
(***************************************************************************)
C2_ReadBeforeAndAfterDeadline ==
    [][ToConfig =>
        /\ now < CtorDeadline =>
              /\ ~cell'.destructed
              /\ ret' = Ret("toConfig", CtorValue.threw, CtorValue.val)
        /\ now >= CtorDeadline =>
              /\ cell'.destructed
              /\ ret' = Ret("toConfig", CtorReplacement.threw, CtorReplacement.val)
      ]_vars

C2_Witness ==
    /\ ret.op = "toConfig"
    /\ ret.threw
    /\ cell.destructed
    /\ now >= CtorDeadline

(***************************************************************************)
(* C3: once the cell is destructed the destructed flag stays true and the  *)
(* held value is the destruct replacement, never the original value,       *)
(* under every sequence of the public operations.                          *)
(***************************************************************************)
C3_DestructedHoldsReplacement ==
    [][cell.destructed =>
        /\ cell'.destructed
        /\ cell'.value = cell'.destructValue
        /\ ~IsSecret(cell'.value)
      ]_vars

(***************************************************************************)
(* C4: on a destructed cell setValue, setDestruct and timerRestart throw   *)
(* and leave the cell (value, deadline, destructed flag) unchanged.        *)
(***************************************************************************)
C4_MutationAfterDestructThrows ==
    [][(cell.destructed /\ (SetValue \/ SetDestruct \/ TimerRestart)) =>
        (ret'.threw /\ cell' = cell)
      ]_vars

C4_Witness ==
    /\ cell.destructed
    /\ ret.op = "timerRestart"
    /\ ret.threw

(***************************************************************************)
(* C5: once the cell is destructed no background timer of the cell is      *)
(* pending (so no further timerTick runs for it).                          *)
(***************************************************************************)
C5_NoTimerOnceDestructed ==
    cell.destructed => PendingCount(cell) = 0

(***************************************************************************)
(* C6: with a positive poll interval T and no reads, the cell is           *)
(* destructed by a timer tick no later than deadline + T.                  *)
(***************************************************************************)
C6_TimerDestructsWithinInterval ==
    (CtorTick > 0 /\ ~cell.destructed) => now <= CtorDeadline + CtorTick

C6_Witness ==
    /\ CtorTick > 0
    /\ cell.destructed
    /\ ret.op = "new"
    /\ now > CtorDeadline
    /\ now <= CtorDeadline + CtorTick

(***************************************************************************)
(* C7: a cell constructed with tick: 0 runs no background timer: with      *)
(* reads and timers as the only activity, it becomes destructed by a read  *)
(* only.                                                                   *)
(***************************************************************************)
C7_TickZeroDestructsOnReadOnly ==
    [][(args.config.tick = 0 /\ ~cell.destructed /\ cell'.destructed) => ToConfig]_vars

(***************************************************************************)
(* C9: for every field whose descriptor sets `destruct`, the value         *)
(* applyField produces is held in a ConfigDestruct cell, on every path     *)
(* that yields a value (raw input, string default, non-string default,     *)
(* defaultRaw).                                                            *)
(***************************************************************************)
C9_DestructFieldsAreCells ==
    (ret.op = "apply" /\ ~ret.out.threw) =>
        \A i \in 1..Len(args.fields) :
            LET slot == Get(ret.out.obj, args.fields[i].k)
            IN  (args.fields[i].raw.destruct.set /\ slot.v # Undef) => slot.isCell

(***************************************************************************)
(* C10: apply() processes the fields in declaration order and is           *)
(* fail-fast: when a field fails it throws one error that names that field *)
(* (Env '<field>': ...) and has the field's error as cause, returns no     *)
(* config, and runs no function of a later field.                          *)
(***************************************************************************)
FieldOutcome(i) ==
    applyField(Get(args.config, args.fields[i].k).v, args.fields[i].raw, now)
FailingFields == {i \in 1..Len(args.fields) : FieldOutcome(i).threw}
FieldIndex(k) == CHOOSE i \in 1..Len(args.fields) : args.fields[i].k = k

C10_ApplyFailsFast ==
    ret.op = "apply" =>
        /\ ret.out.threw <=> FailingFields # {}
        /\ \A i, j \in 1..Len(ret.out.calls) :
              i < j => FieldIndex(ret.out.calls[i][1]) <= FieldIndex(ret.out.calls[j][1])
        /\ FailingFields # {} =>
              LET first == Min(FailingFields)
              IN  /\ ret.out.err.field = args.fields[first].k
                  /\ ret.out.err.msg = "Env"
                  /\ ret.out.err.cause = FieldOutcome(first).err
                  /\ ret.out.obj = <<>>
                  /\ \A i \in 1..Len(ret.out.calls) :
                        FieldIndex(ret.out.calls[i][1]) <= first

C10_Witness ==
    /\ ret.op = "apply"
    /\ ret.out.threw
    /\ ret.out.err.field = args.fields[1].k
    /\ \E c \in {"default", "cast", "validate"} :
          c \in {FieldOutcome(2).calls[i] : i \in 1..Len(FieldOutcome(2).calls)}

(***************************************************************************)
(* C1: for a field declared with `destruct`, once its deadline has passed  *)
(* no read of the field through the DotEnv config returns the original     *)
(* value, whatever DotEnv operations ran since the schema() call that      *)
(* created the field.                                                      *)
(***************************************************************************)
C1_NoStaleReadPastDeadline ==
    [][\A k \in EnvKeys :
          (ReadKey(k) /\ env.deadline[k] # NoTimer /\ now >= env.deadline[k])
              => ~IsSecret(ret'.val)
      ]_vars

(***************************************************************************)
(* C8: reading a field of the object value() returns whose stored value is *)
(* a ConfigDestruct cell gives the result of the cell's toConfig(), never  *)
(* the cell itself, for cells created by schema() and by schemaGlob(),     *)
(* whether or not schema() was called before.                              *)
(***************************************************************************)
C8_ReadsResolveCells ==
    [][\A k \in EnvKeys :
          (ReadKey(k) /\ Get(env.state, k).isCell)
              => LET r == toConfig(Get(env.state, k).c, now)
                 IN  /\ ret'.val # CellObj
                     /\ ret'.threw = r.out.threw
                     /\ ret'.val = r.out.val
      ]_vars

(***************************************************************************)
(* C11: for every field with required = true, apply() either fails or      *)
(* stores a defined value for the field: a value that is still undefined   *)
(* after defaulting and casting is never returned for a required field.    *)
(***************************************************************************)
C11_RequiredFieldsAreDefined ==
    (ret.op = "apply" /\ ~ret.out.threw) =>
        \A i \in 1..Len(args.fields) :
            LET g == getFieldSchema(args.fields[i].raw)
            IN  (~g.threw /\ g.fs.required)
                    => Get(ret.out.obj, args.fields[i].k).v # Undef

C14_DefaultsOnlyForBlankValues ==
    ret.op = "applyField" =>
        LET raw == args.fields[ret.i].raw
            val == Get(args.config, args.fields[ret.i].k).v
        IN  (TypeOf(val) = "string" /\ ~Blank(val))
                => ret.out = applyField(val, [raw EXCEPT !.default = Undef,
                                                         !.defaultRaw = Undef], now)

(***************************************************************************)
(* C15: when the raw value is undefined or empty and `default` (a value,   *)
(* or a function that is called) evaluates to a string, that string goes   *)
(* through cast and validate exactly like a raw input; when it evaluates   *)
(* to any non-string value, that value is returned as it is and cast and   *)
(* validate are not run.                                                   *)
(***************************************************************************)
C15_StringDefaultsAreRawInputs ==
    ret.op = "applyField" =>
        LET raw == args.fields[ret.i].raw
            val == Get(args.config, args.fields[ret.i].k).v
            g == getFieldSchema(raw)
            d == Call(g.fs.default)
            called == IF TypeOf(g.fs.default) = "function" THEN <<"default">> ELSE <<>>
            asRaw == applyField(d.val, [raw EXCEPT !.default = Undef], now)
        IN  (~g.threw /\ g.fs.defaultRaw = Undef /\ g.fs.default # Undef
                /\ Blank(val) /\ ~d.threw)
                => IF TypeOf(d.val) = "string"
                   THEN /\ ret.out.threw = asRaw.threw
                        /\ ret.out.err = asRaw.err
                        /\ ret.out.slot = asRaw.slot
                        /\ ret.out.calls = called \o asRaw.calls
                   ELSE /\ ~ret.out.threw
                        /\ ret.out.slot = Slot(d.val)
                        /\ ret.out.calls = called

\* a number field without a value whose default function returns '12'
C15_Witness ==
    /\ ret.op = "applyField"
    /\ args.fields[ret.i].raw.type = StringType(T_number)
    /\ args.fields[ret.i].raw.default = FnRet(Str(Twelve))
    /\ args.fields[ret.i].raw.defaultRaw = Undef
    /\ Get(args.config, args.fields[ret.i].k).v = Undef
    /\ ret.out.slot = Slot(Num(12))
    /\ ret.out.calls = <<"default", "cast", "validate">>

(***************************************************************************)
(* C16: in applyField the validator is called with (value, effective field *)
(* schema); the field fails with a 'Failed validation' error when the      *)
(* validator throws or returns a value that is defined and falsy, and      *)
(* passes when it returns undefined or a truthy value.                     *)
(***************************************************************************)
C16_ValidatorDecides ==
    ret.op = "applyField" =>
        LET val == Get(args.config, args.fields[ret.i].k).v
            g == getFieldSchema(args.fields[ret.i].raw)
            c == applyCast(val, g.fs)
            res == IF g.fs.validate.kind = "custom"
                   THEN CustomValidate(g.fs.validate.beh)
                   ELSE ValidateFn(g.fs.validate.name, c.val, g.fs)
            bad == res.threw \/ (res.val # Undef /\ ~Truthy(res.val))
        IN  \* the field reaches its validator
            (~g.threw /\ g.fs.defaultRaw = Undef /\ g.fs.default = Undef
                /\ g.fs.validate.kind # "none"
                /\ ~(~g.fs.required /\ Blank(val))
                /\ ~c.threw
                /\ ~(g.fs.required /\ c.val = Undef))
                => /\ ret.out.calls = c.calls \o <<"validate">>
                   /\ ret.out.threw <=> bad
                   /\ bad => ret.out.err = "Failed validation"
                   /\ ~bad => IF g.fs.destruct.set THEN ret.out.slot.isCell
                                                   ELSE ret.out.slot = Slot(c.val)

\* a validator that returns null fails the field
C16_Witness ==
    /\ ret.op = "applyField"
    /\ args.fields[ret.i].raw.validate = CustomFn("null")
    /\ Get(args.config, args.fields[ret.i].k).v = Str(Twelve)
    /\ ret.out.threw
    /\ ret.out.err = "Failed validation"
    /\ ret.out.calls = <<"cast", "validate">>

(***************************************************************************)
(* C17: every schema entry whose resolved type name is not a key of the    *)
(* type registry makes getFieldSchema, and so applyField and apply(),      *)
(* throw; it is never treated as type 'any' or passed through without      *)
(* cast and validate.                                                      *)
(***************************************************************************)
C17_UnknownTypesThrow ==
    LET Unknown(raw) ==
            \/ raw.type.kind = "string" /\ ToLowerCase(raw.type.name) \notin TypeNames
            \/ raw.shape = "object" /\ raw.type.kind = "other"
    IN  /\ ret.op \in {"getFieldSchema", "applyField"}
            => (Unknown(args.fields[ret.i].raw) => ret.out.threw)
        /\ ret.op = "apply"
            => ((\E i \in 1..Len(args.fields) : Unknown(args.fields[i].raw))
                    => ret.out.threw)

(***************************************************************************)
(* C18: getFieldSchema returns, for every accepted shape, the options of   *)
(* the resolved registry type overridden by the field's own keys; a bare   *)
(* alias (Number), {type: Number}, a bare string in any letter case        *)
(* ('NUMBER') and {type: 'number'} all resolve to the same type with       *)
(* required = true unless the object says otherwise, and a plain object    *)
(* without `type` resolves to type 'any' with required = false.            *)
(***************************************************************************)
C18_FieldSchemaResolution ==
    ret.op = "getFieldSchema" =>
        LET raw == args.fields[ret.i].raw
            own == raw.shape = "object"
            accepted ==
                \/ raw.shape = "string" /\ raw.type.kind = "string"
                \/ raw.shape = "alias" /\ raw.type.kind = "alias"
                \/ own /\ raw.type.kind \in {"string", "alias", "none"}
            name ==
                IF raw.type.kind = "alias" THEN Aliases(raw.type.alias)
                ELSE IF raw.type.kind = "none" THEN T_any
                ELSE IF raw.type.name = <<"N", "U", "M", "B", "E", "R">> THEN T_number
                ELSE raw.type.name
        IN  (accepted /\ name \in TypeNames)
                => /\ ~ret.out.threw
                   /\ ret.out.fs.type = name
                   /\ ret.out.fs.required =
                         IF own /\ raw.required # "unset" THEN raw.required = "true"
                         ELSE raw.type.kind # "none"
                   /\ ret.out.fs.cast = Types(name).cast
                   /\ ret.out.fs.validate =
                         IF own /\ raw.validate # NoFn THEN raw.validate
                         ELSE Types(name).validate
                   /\ own => /\ ret.out.fs.default = raw.default
                             /\ ret.out.fs.defaultRaw = raw.defaultRaw
                             /\ ret.out.fs.destruct = raw.destruct
                             /\ ret.out.fs.min = raw.min
                             /\ ret.out.fs.max = raw.max

\* {type: 'NUMBER', required: false} is an optional number
C18_Witness ==
    /\ ret.op = "getFieldSchema"
    /\ args.fields[ret.i].raw.shape = "object"
    /\ args.fields[ret.i].raw.type = StringType(<<"N", "U", "M", "B", "E", "R">>)
    /\ args.fields[ret.i].raw.required = "false"
    /\ ~ret.out.threw
    /\ ret.out.fs.type = T_number
    /\ ret.out.fs.cast = TypeFn(T_number)
    /\ ~ret.out.fs.required

(***************************************************************************)
(* C19: for a `number` or `percent` field with min and max, the cast value *)
(* v is accepted exactly when min <= v <= max, for every setting of the    *)
(* field's `required` flag.                                                *)
(***************************************************************************)
C19_RangeIsInclusive ==
    ret.op = "applyField" =>
        LET raw == args.fields[ret.i].raw
            val == Get(args.config, args.fields[ret.i].k).v
            v == IF raw.type = StringType(T_percent)
                 THEN ParseInt(StripPercent(val.s)) ELSE ParseInt(val.s)
        IN  (raw.shape = "object"
                /\ raw.type \in {StringType(T_number), StringType(T_percent)}
                /\ raw.min # Undef /\ raw.max # Undef
                /\ raw.default = Undef /\ raw.defaultRaw = Undef
                /\ raw.validate = NoFn
                /\ TypeOf(val) = "string" /\ ~Blank(val)
                /\ v.t = "number")
                => (~ret.out.threw <=> (raw.min.n <= v.n /\ v.n <= raw.max.n))

(***************************************************************************)
(* C20: schemaGlob(pattern, fieldSchema) sets, for every key present in    *)
(* the state whose name matches the pattern, the schema entry to           *)
(* fieldSchema and the state value to applyField(previous value,           *)
(* fieldSchema); keys that do not match keep their value and their schema  *)
(* entry, and no key is added or removed.                                  *)
(***************************************************************************)
C20_SchemaGlobFrame ==
    [][(SchemaGlob /\ ~ret'.threw) =>
          LET glob == ret'.key
              was(k) == Read(env.state, env.proxied, k, now)
              is(k) == Read(env'.state, env'.proxied, k, now)
              entry(fields, k) == {fields[i].raw : i \in {j \in 1..Len(fields) : fields[j].k = k}}
              before == IF env.hasSchema THEN env.fields ELSE <<>>
          IN  /\ Keys(env'.state) = Keys(env.state)
              /\ \E raw \in {SecretField, Bare("alias", AliasType("String"))} :
                    \A k \in Keys(env.state) :
                        Matches(glob, k) =>
                            /\ entry(env'.fields, k) = {raw}
                            /\ Get(env'.state, k) = applyField(was(k).val, raw, now).slot
              /\ \A k \in EnvKeys :
                    ~(k \in Keys(env.state) /\ Matches(glob, k)) =>
                        /\ entry(env'.fields, k) = entry(before, k)
                        /\ Get(env'.state, k).isCell = Get(env.state, k).isCell
                        /\ is(k).threw = was(k).threw
                        /\ is(k).val = was(k).val
      ]_vars

\* schemaGlob('P', ...) has run on a state with the keys P and Q
C20_Witness ==
    /\ ret.op = "schemaGlob"
    /\ ret.key = KeyP
    /\ ~ret.threw
    /\ Keys(env.state) = {KeyP, KeyQ}
    /\ Get(env.state, KeyP).isCell
    /\ ~Get(env.state, KeyQ).isCell

(***************************************************************************)
(* C21: export() writes, for every field whose type defines `uncast`       *)
(* (directly, or as a pointer to another type as `mongouri` does), the     *)
(* string that uncast gives for the field's current value, and for a field *)
(* held in a ConfigDestruct it writes the resolved value, not the cell.    *)
(* Stated for the states where the uncast of every such field gives a      *)
(* string for the value.                                                   *)
(***************************************************************************)
C21_ExportWritesUncast ==
    LET field(i) == getFieldSchema(env.fields[Index(env.fields, env.state[i].k)].raw).fs
        resolved(i) == IF env.state[i].slot.isCell
                       THEN Call(env.state[i].slot.c.value).val
                       ELSE env.state[i].slot.v
        \* the function `uncast` names, a pointer followed to its type
        written(i) == UncastFn(field(i).uncast.name, resolved(i), field(i))
        typed == {i \in 1..Len(env.state) : field(i).uncast.kind # "none"}
        cells == {i \in 1..Len(env.state) :
                     env.state[i].slot.isCell /\ field(i).uncast.kind = "none"}
    IN  (ret.op = "export" /\ ret.values /\ \A i \in typed : ~written(i).threw)
            => /\ ~ret.threw
               /\ \A i \in typed :
                     \E j \in 1..Len(ret.lines) :
                         ret.lines[j] = env.state[i].k \o <<"=">> \o written(i).val.s
               /\ \A i \in cells :
                     \E j \in 1..Len(ret.lines) :
                         ret.lines[j] = env.state[i].k \o <<"=">> \o StringOf(resolved(i))

(***************************************************************************)
(* C22: export() writes the line `KEY=`, with nothing after the '=',       *)
(* exactly when the field has no value to show (undefined or the empty     *)
(* string); every other value, and with {values: false} the default of the *)
(* field, is written in its string form after the '='.                     *)
(***************************************************************************)
C22_EmptyOnlyWithoutValue ==
    LET field(i) == getFieldSchema(env.fields[Index(env.fields, env.state[i].k)].raw).fs
        \* the value export() has to show for the i-th key
        shown(i) == IF ~ret.values THEN Call(field(i).default).val
                    ELSE IF env.state[i].slot.isCell
                    THEN Call(env.state[i].slot.c.value).val
                    ELSE env.state[i].slot.v
        nothing(i) == shown(i).t = "undefined" \/ shown(i) = Str(<<>>)
        forms(i) == {StringOf(shown(i))}
                    \cup (IF field(i).uncast.kind = "fn"
                             /\ ~UncastFn(field(i).uncast.name, shown(i), field(i)).threw
                          THEN {UncastFn(field(i).uncast.name, shown(i), field(i)).val.s}
                          ELSE {})
        pair(i, l) == Len(l) > Len(env.state[i].k)
                      /\ SubSeq(l, 1, Len(env.state[i].k) + 1) = env.state[i].k \o <<"=">>
    IN  (ret.op = "export" /\ ~ret.threw)
            => \A i \in 1..Len(env.state) :
                  \E j \in 1..Len(ret.lines) :
                      /\ pair(i, ret.lines[j])
                      /\ nothing(i) <=> ret.lines[j] = env.state[i].k \o <<"=">>
                      /\ ~nothing(i) =>
                            ret.lines[j] \in {env.state[i].k \o <<"=">> \o f : f \in forms(i)}

(***************************************************************************)
(* C23: in the text export() returns, any two fields that share a header   *)
(* prefix stand under one `# PREFIX #` line, their KEY=value lines in      *)
(* declaration order, and the header of a prefix is written once.          *)
(***************************************************************************)
C23_OneHeaderPerPrefix ==
    LET prefix(k) == SubSeq(k, 1, Min({j \in 2..Len(k) : k[j] = "_"}) - 1)
        header(h) == <<"#", " ">> \o h \o <<" ", "#">>
        headers == {header(prefix(env.state[i].k)) : i \in 1..Len(env.state)}
        \* the line of the i-th key
        at(i) == CHOOSE j \in 1..Len(ret.lines) :
                    /\ Len(ret.lines[j]) > Len(env.state[i].k)
                    /\ SubSeq(ret.lines[j], 1, Len(env.state[i].k) + 1)
                          = env.state[i].k \o <<"=">>
    IN  (ret.op = "export" /\ ~ret.threw)
            => /\ \A h \in headers :
                     Cardinality({j \in 1..Len(ret.lines) : ret.lines[j] = h}) = 1
               /\ \A i1, i2 \in 1..Len(env.state) :
                     (i1 < i2 /\ prefix(env.state[i1].k) = prefix(env.state[i2].k))
                         => /\ at(i1) < at(i2)
                            /\ \A j \in at(i1)..at(i2) : ret.lines[j] \notin headers

(***************************************************************************)
(* C24: for every built-in type that defines `uncast` and every literal L  *)
(* that is valid for it, uncast(cast(L)) succeeds and gives a string whose *)
(* cast is the value cast(L) (boolean: 'yes' gives true, written as the    *)
(* first true literal, which is cast to true again).                       *)
(***************************************************************************)
C24_UncastRoundTrip ==
    (/\ ret.op = "uncast"
     /\ args.fields[ret.i].raw.defaultRaw = Undef
     /\ TypeOf(Get(args.config, args.fields[ret.i].k).v) = "string"
     /\ ~Blank(Get(args.config, args.fields[ret.i].k).v))
        => /\ ~ret.uncast.threw
           /\ TypeOf(ret.uncast.val) = "string"
           /\ ~ret.recast.threw
           /\ ret.recast.slot = ret.out.slot

(***************************************************************************)
(* C25: map(func) rebuilds the state entry by entry from what func         *)
(* returns: a [key, val] tuple replaces the entry, false removes it, true  *)
(* or undefined leaves it, and a returned object replaces the entry with   *)
(* all the keys and values of that object (here the object {[key]: val},   *)
(* which gives the entry back).                                            *)
(***************************************************************************)
C25_MapRebuildsState ==
    [][(Map /\ ~ret'.threw) =>
          LET entries == Entries(env.state, env.proxied, now).entries
              \* the entries that func does not answer false for
              kept(e) == ret'.func = "filter" => e.k[1] = "P"
          IN  env'.state = Assign(<<>>, SelectSeq(entries, kept))
      ]_vars

C27_OnePendingTimerHeld ==
    /\ PendingCount(cell) <= 1
    /\ PendingCount(cell) = 1 => cell.handleAt >= 0

(***************************************************************************)
(* C28: reading a key of the object apply() returned, when the key holds a *)
(* value that is not a cell, does not throw and returns exactly the stored *)
(* value.                                                                  *)
(***************************************************************************)
C28_PlainReadReturnsStored ==
    (ret.op = "read" /\ ~ret.stored.isCell) =>
        /\ ~ret.out.threw
        /\ ret.out.val = ret.stored.v

(***************************************************************************)
(* C29: for a field whose resolved schema is required and has neither      *)
(* default nor defaultRaw, applying the field to a missing raw value       *)
(* (undefined or the empty string) fails.                                  *)
(***************************************************************************)
C29_RequiredRejectsMissing ==
    ret.op = "applyField" =>
        \A g \in {getFieldSchema(args.fields[ret.i].raw)} :
            ( /\ ~g.threw
              /\ g.fs.required
              /\ g.fs.default = Undef
              /\ g.fs.defaultRaw = Undef
              /\ Blank(Get(args.config, args.fields[ret.i].k).v) )
                => ret.out.threw

(***************************************************************************)
(* C30: once a schema has been applied, export() with default options      *)
(* returns without throwing and gives one KEY=value line for every key of  *)
(* the state, whatever parse, set, merge, schema and schemaGlob left in    *)
(* it; stated for the states in which reading every key succeeds.          *)
(***************************************************************************)
C30_ExportAfterSchema ==
    [][(Export /\ env.hasSchema /\ ret'.values /\ ret'.err # "read threw") =>
          /\ ~ret'.threw
          /\ \A k \in Keys(env'.state) :
                \E j \in 1..Len(ret'.lines) :
                    /\ Len(ret'.lines[j]) > Len(k)
                    /\ SubSeq(ret'.lines[j], 1, Len(k) + 1) = k \o <<"=">>
      ]_vars

====
